---------------------------- MODULE Spec2Model ----------------------------
(***************************************************************************)
(* A model of the core of boost::filesystem's operations.cpp (POSIX        *)
(* build): canonical, weakly_canonical, relative, remove and remove_all,   *)
(* running against a small filesystem that another process may change      *)
(* between two system calls.                                               *)
(*                                                                         *)
(* A path is the sequence of the elements path::iterator yields: an        *)
(* optional root name ("//n"), an optional root directory ("/"), then      *)
(* names, "." and "..".  A filesystem maps the location of every entry (a  *)
(* path with no ".", ".." or symlink in it) to its kind and link target.   *)
(***************************************************************************)
EXTENDS Integers, Sequences, FiniteSets, TLC

VARIABLES
    fs,      \* the filesystem: location -> [kind, target]
    fs0,     \* the filesystem as it was when the first call started
    stack,   \* the call stack of the calling thread, innermost frame last
    ret,     \* what the last returned callee handed to its caller
    log,     \* the finished top-level calls, oldest first
    tick,    \* system calls made so far by the running top-level call
    hist,    \* the other process's changes during the first call: [at, change]
    done,    \* how many entries of hist the repeated call has seen again
    phase,   \* "first": the first call; "repeat": the same call again, with an
             \* error slot, on the same filesystem under the same changes;
             \* "next": a further call on the filesystem as it is now
    order    \* the order in which ::readdir hands out the entries of a directory

vars == <<fs, fs0, stack, ret, log, tick, hist, done, phase, order>>

----------------------------------------------------------------------------
(* Bounds of the model *)

MaxCalls == 2          \* top-level calls per behaviour
MaxExt == 1            \* changes the other process makes during one call
MaxPathLen == 3        \* elements of an input path after its root
MaxSymlinkHops == 8    \* links the kernel follows in one lookup before ELOOP
MaxPasses == 4         \* scan passes of canonical that are counted

----------------------------------------------------------------------------
(* The path value type *)

Sep == "/"
Dot == "."
DotDot == ".."
NetName == "//n"
EmptyPath == <<>>

Last(s) == s[Len(s)]
Front(s) == SubSeq(s, 1, Len(s) - 1)

is_root_name(e) == e = NetName

has_root_name(p) == p # <<>> /\ is_root_name(p[1])

root_name(p) == IF has_root_name(p) THEN <<p[1]>> ELSE <<>>

has_root_directory(p) ==
    \/ p # <<>> /\ p[1] = Sep
    \/ Len(p) >= 2 /\ is_root_name(p[1]) /\ p[2] = Sep

root_directory(p) == IF has_root_directory(p) THEN <<Sep>> ELSE <<>>

root_path(p) == root_name(p) \o root_directory(p)

relative_path(p) == SubSeq(p, Len(root_path(p)) + 1, Len(p))

\* POSIX: a path is absolute when it has a root directory
is_absolute(p) == has_root_directory(p)

\* path::remove_filename of this version erases from m_parent_path_end():
\* the last element goes, the root directory included
remove_filename(p) == IF p = <<>> THEN p ELSE Front(p)

\* operator/= : the strings are joined with a separator unless the right side
\* starts with one or the left side ends with one; a root name followed by a
\* name therefore gains a root directory ("//n" / "a" is "//n/a")
PathAppend(p, q) ==
    IF q = <<>> THEN p
    ELSE IF p = <<>> THEN q
    ELSE IF q[1] = Sep
         THEN (IF Len(p) = 1 /\ is_root_name(p[1]) THEN p \o q ELSE p \o Tail(q))
    ELSE IF Len(p) = 1 /\ is_root_name(p[1]) THEN p \o <<Sep>> \o q
    ELSE p \o q


----------------------------------------------------------------------------
(* The operating system: lookup of a path in the filesystem *)

no_error == "0"
ENOENT == "ENOENT"
ENOTDIR == "ENOTDIR"
ELOOP == "ELOOP"
EINVAL == "EINVAL"
ENOTEMPTY == "ENOTEMPTY"
EISDIR == "EISDIR"
EBUSY == "EBUSY"
EPERM == "EPERM"
\* errc::no_such_file_or_directory of the generic category
no_such_file_or_directory == ENOENT

MainRoot == <<Sep>>
NetRoot == <<NetName, Sep>>
Roots == {MainRoot, NetRoot}

\* the process's current directory, as current_path() reads it
Cwd == <<Sep, "c">>

NoEntry == [kind |-> "none", target |-> <<>>]
DirEntry == [kind |-> "dir", target |-> <<>>]
FileEntry == [kind |-> "file", target |-> <<>>]
LinkEntry(t) == [kind |-> "link", target |-> t]

Exists(f, loc) == loc \in DOMAIN f /\ f[loc].kind # "none"

ParentLoc(loc) == IF loc \in Roots THEN loc ELSE Front(loc)

StartLoc(p) ==
    IF has_root_name(p) THEN NetRoot
    ELSE IF has_root_directory(p) THEN MainRoot
    ELSE Cwd

Children(f, loc) ==
    {c \in DOMAIN f : c \notin Roots /\ Front(c) = loc /\ f[c].kind # "none"}

\* The kernel's walk over the components of a path, one directory at a time:
\* ".." is the parent of the directory reached, a symlink is replaced by its
\* target, and the last component is followed only when follow is set.
RECURSIVE Walk(_, _, _, _, _)
Walk(f, cur, comps, follow, hops) ==
    IF comps = <<>> THEN [err |-> no_error, loc |-> cur]
    ELSE IF f[cur].kind # "dir" THEN [err |-> ENOTDIR, loc |-> cur]
    ELSE LET c == Head(comps)
             rest == Tail(comps)
             child == cur \o <<c>>
         IN  IF c = Dot THEN Walk(f, cur, rest, follow, hops)
             ELSE IF c = DotDot THEN Walk(f, ParentLoc(cur), rest, follow, hops)
             ELSE IF ~Exists(f, child) THEN [err |-> ENOENT, loc |-> cur]
             ELSE IF f[child].kind = "link" /\ (rest # <<>> \/ follow)
                  THEN IF hops = 0 THEN [err |-> ELOOP, loc |-> cur]
                       ELSE LET t == f[child].target
                            IN  IF t = <<>> THEN [err |-> ENOENT, loc |-> cur]
                                ELSE Walk(f,
                                          IF is_absolute(t) THEN StartLoc(t) ELSE cur,
                                          relative_path(t) \o rest, follow, hops - 1)
             ELSE Walk(f, child, rest, follow, hops)

Lookup(f, p, follow) ==
    IF p = <<>> THEN [err |-> ENOENT, loc |-> <<>>]
    ELSE IF ~Exists(f, StartLoc(p)) THEN [err |-> ENOENT, loc |-> <<>>]
    ELSE Walk(f, StartLoc(p), relative_path(p), follow, MaxSymlinkHops)

\* errno == ENOENT || errno == ENOTDIR
not_found_error(errval) == errval = ENOENT \/ errval = ENOTDIR

TypeOf(kind) ==
    CASE kind = "dir" -> "directory_file"
      [] kind = "file" -> "regular_file"
      [] kind = "link" -> "symlink_file"
      [] OTHER -> "type_unknown"

NoExc == [what |-> "", path1 |-> <<>>, code |-> no_error]
Exc(what, p, code) == [what |-> what, path1 |-> p, code |-> code]

\* what status and symlink_status make of the answer r of ::stat or ::lstat:
\* a missing entry is file_not_found and never thrown, yet the slot holds the
\* errno; any other failure is status_error, thrown when there is no slot
stat_result(f, p, hasEc, r) ==
    IF r.err # no_error
    THEN IF not_found_error(r.err)
         THEN [type |-> "file_not_found", ec |-> r.err, threw |-> FALSE, exc |-> NoExc]
         ELSE IF ~hasEc
              THEN [type |-> "status_error", ec |-> r.err, threw |-> TRUE,
                    exc |-> Exc("boost::filesystem::status", p, r.err)]
              ELSE [type |-> "status_error", ec |-> r.err, threw |-> FALSE, exc |-> NoExc]
    ELSE [type |-> TypeOf(f[r.loc].kind), ec |-> no_error, threw |-> FALSE, exc |-> NoExc]

\* a variant of status that asks ::lstat and so never follows a final symlink
status_NoFollow(f, p, hasEc) == stat_result(f, p, hasEc, Lookup(f, p, FALSE))

\* status(p, ec): ::stat, which follows symlinks.  The last argument says
\* whether an error slot was passed; ec is the slot's value after the call.
status(f, p, hasEc) == stat_result(f, p, hasEc, Lookup(f, p, TRUE))

\* symlink_status(p, ec): ::lstat, which does not follow a final symlink
symlink_status(f, p, hasEc) == stat_result(f, p, hasEc, Lookup(f, p, FALSE))

\* query_file_type, but asking ::stat, which follows a final symlink
query_file_type_follow(f, p, hasEc) == status(f, p, hasEc)

query_file_type(f, p, hasEc) == symlink_status(f, p, hasEc)

\* what read_symlink makes of the answer r of ::readlink
readlink_result(f, p, hasEc, r, err) ==
    IF err # no_error
    THEN IF ~hasEc
         THEN [path |-> <<>>, ec |-> err, threw |-> TRUE,
               exc |-> Exc("boost::filesystem::read_symlink", p, err)]
         ELSE [path |-> <<>>, ec |-> err, threw |-> FALSE, exc |-> NoExc]
    ELSE [path |-> f[r.loc].target, ec |-> no_error, threw |-> FALSE, exc |-> NoExc]

os_readlink_errno(f, r) ==
    IF r.err # no_error THEN r.err
    ELSE IF f[r.loc].kind # "link" THEN EINVAL
    ELSE no_error

\* read_symlink(p, ec): ::readlink
read_symlink(f, p, hasEc) ==
    readlink_result(f, p, hasEc, Lookup(f, p, FALSE),
                    os_readlink_errno(f, Lookup(f, p, FALSE)))

\* error(error_num, p, ec, message): clears the slot and answers false when
\* error_num is 0; otherwise throws (no slot) or fills the slot and answers true
error(error_num, p, hasEc, message) ==
    IF error_num = no_error
    THEN [failed |-> FALSE, ec |-> no_error, threw |-> FALSE, exc |-> NoExc]
    ELSE IF ~hasEc
         THEN [failed |-> TRUE, ec |-> error_num, threw |-> TRUE,
               exc |-> Exc(message, p, error_num)]
         ELSE [failed |-> TRUE, ec |-> error_num, threw |-> FALSE, exc |-> NoExc]

current_path == Cwd

\* absolute_on, but a path without a root is returned as it is
absolute_on_KeepRelative(p, abs_base) ==
    IF p = <<>> THEN abs_base
    ELSE IF root_name(p) # <<>>
         THEN IF root_directory(p) = <<>>
              THEN PathAppend(PathAppend(PathAppend(root_name(p),
                       root_directory(abs_base)), relative_path(abs_base)),
                       relative_path(p))
              ELSE p
    ELSE IF root_directory(p) # <<>>
         THEN IF root_name(abs_base) = <<>> THEN p
              ELSE PathAppend(root_name(abs_base), p)
    ELSE p

\* absolute(p, base) once base has been made absolute
absolute_on(p, abs_base) ==
    IF p = <<>> THEN abs_base
    ELSE IF root_name(p) # <<>>
         THEN IF root_directory(p) = <<>>
              THEN PathAppend(PathAppend(PathAppend(root_name(p),
                       root_directory(abs_base)), relative_path(abs_base)),
                       relative_path(p))
              ELSE p
    ELSE IF root_directory(p) # <<>>
         THEN IF root_name(abs_base) = <<>> THEN p
              ELSE PathAppend(root_name(abs_base), p)
    ELSE PathAppend(abs_base, p)

absolute(p, base) ==
    absolute_on(p, IF is_absolute(base) THEN base
                   ELSE absolute_on(base, current_path))

----------------------------------------------------------------------------
(* The calling thread: a stack of frames, one step per action *)

NoRet == [val |-> <<>>, ec |-> no_error]

Top == stack[Len(stack)]

\* what a step does to the thread
Goto(fr) == [k |-> "goto", fr |-> fr]
Invoke(fr, callee) == [k |-> "call", fr |-> fr, callee |-> callee]
Return(val, ec) == [k |-> "ret", val |-> val, ec |-> ec]
Throw(exc) == [k |-> "throw", exc |-> exc]

\* the record of a finished top-level call: what was asked, what came back,
\* the filesystem before and after, how many entries the call's own ::unlink
\* and ::rmdir took away, and how many changes the other process made
Outcome(fr, val, ec, raised, exc, newfs) ==
    [op |-> fr.fn, p |-> fr.p, base |-> fr.base, hasEc |-> fr.hasEc,
     val |-> val, ec |-> ec, raised |-> raised, exc |-> exc,
     passes |-> IF fr.fn = "canonical" THEN fr.passes ELSE 0,
     reads |-> IF fr.fn = "canonical" THEN fr.reads ELSE 0,
     fsBefore |-> IF phase = "next" THEN fs ELSE fs0,
     fsAfter |-> newfs,
     own |-> IF fr.fn = "remove_all" THEN fr.own + (IF newfs # fs THEN 1 ELSE 0) ELSE 0,
     ext |-> IF phase = "repeat" THEN done ELSE Len(hist)]

\* the other process's next change must be replayed before the thread goes on
ReplayPending ==
    phase = "repeat" /\ done < Len(hist) /\ hist[done + 1].at = tick

Running == stack # <<>> /\ ~ReplayPending

\* the stack s after a step of the thread that left the filesystem newfs: a
\* remove_all at the bottom keeps the tally of the entries its system calls
\* took away (one call a step, so one entry at most)
Tally(s, newfs) ==
    IF newfs # fs /\ s[1].fn = "remove_all" THEN [s EXCEPT ![1].own = @ + 1] ELSE s

Apply(out, ticks, newfs) ==
    /\ tick' = tick + ticks
    /\ fs' = newfs
    /\ CASE out.k = "goto" ->
              /\ stack' = Tally([stack EXCEPT ![Len(stack)] = out.fr], newfs)
              /\ ret' = NoRet
              /\ log' = log
         [] out.k = "call" ->
              /\ stack' = Tally(Append([stack EXCEPT ![Len(stack)] = out.fr], out.callee),
                                newfs)
              /\ ret' = NoRet
              /\ log' = log
         [] out.k = "ret" ->
              IF Len(stack) = 1
              THEN /\ stack' = <<>>
                   /\ ret' = NoRet
                   /\ log' = Append(log, Outcome(stack[1], out.val, out.ec, FALSE, NoExc, newfs))
              ELSE /\ stack' = Tally(Front(stack), newfs)
                   /\ ret' = [val |-> out.val, ec |-> out.ec]
                   /\ log' = log
         [] out.k = "throw" ->
              /\ stack' = <<>>
              /\ ret' = NoRet
              /\ log' = Append(log, Outcome(stack[1], <<>>, stack[1].ec, TRUE, out.exc, newfs))
    /\ UNCHANGED <<fs0, hist, done, phase, order>>

----------------------------------------------------------------------------
(* canonical(p, base, ec) *)

CanonicalFrame(p, base, hasEc) ==
    [fn |-> "canonical", pc |-> "start", hasEc |-> hasEc, ec |-> no_error,
     p |-> p, base |-> base, source |-> <<>>, root |-> <<>>, result |-> <<>>,
     itr |-> 1, passes |-> 0, reads |-> 0]

\* a variant of Bump that does not count
Bump_Stuck(n) == n

\* the pass and link counters stop counting at MaxPasses
Bump(n) == IF n < MaxPasses THEN n + 1 ELSE n

\* ".." in the scan: the last element goes unless result is the root
ScanDotDot(result, root) ==
    IF result # root THEN remove_filename(result) ELSE result

\* a variant of NewSource that loses the first unscanned element
NewSource_SkipOne(result, link, source, itr) ==
    LET rest == SubSeq(source, itr + 2, Len(source))
        Feed[i \in 0..Len(rest)] ==
            IF i = 0
            THEN (IF is_absolute(link) THEN link ELSE PathAppend(result, link))
            ELSE PathAppend(Feed[i - 1], <<rest[i]>>)
    IN  Feed[Len(rest)]

\* the source of the next scan pass, once result (its last element already
\* removed) was found to be a symlink to link, at element itr of source
NewSource(result, link, source, itr) ==
    LET rest == SubSeq(source, itr + 1, Len(source))
        Feed[i \in 0..Len(rest)] ==
            IF i = 0
            THEN (IF is_absolute(link) THEN link ELSE PathAppend(result, link))
            ELSE PathAppend(Feed[i - 1], <<rest[i]>>)
    IN  Feed[Len(rest)]

\* a variant of UpFront that lets a source that was not found into the scan
UpFront_NoNotFound(fr, source, st) ==
    IF st.ec # no_error /\ st.type # "file_not_found"
    THEN IF ~fr.hasEc
         THEN Throw(Exc("boost::filesystem::canonical", source, st.ec))
         ELSE Return(<<>>, st.ec)
    ELSE Goto([fr EXCEPT !.pc = "scan", !.source = source,
                         !.root = root_path(source), !.result = <<>>,
                         !.itr = 1, !.passes = 1])

\* what canonical does with the answer st of status(source, local_ec)
UpFront(fr, source, st) ==
    IF st.type = "file_not_found"
    THEN IF ~fr.hasEc
         THEN Throw(Exc("boost::filesystem::canonical", source,
                        no_such_file_or_directory))
         ELSE Return(<<>>, no_such_file_or_directory)
    ELSE IF st.ec # no_error
    THEN IF ~fr.hasEc
         THEN Throw(Exc("boost::filesystem::canonical", source, st.ec))
         ELSE Return(<<>>, st.ec)
    ELSE Goto([fr EXCEPT !.pc = "scan", !.source = source,
                         !.root = root_path(source), !.result = <<>>,
                         !.itr = 1, !.passes = 1])

\* source, root and the up-front status(source, local_ec)
CanonicalStart ==
    /\ Running /\ Top.fn = "canonical" /\ Top.pc = "start"
    /\ LET fr == Top
           source == IF is_absolute(fr.p) THEN fr.p ELSE absolute(fr.p, fr.base)
       IN  Apply(UpFront(fr, source, status(fs, source, TRUE)), 1, fs)

\* one turn of the for loop over source, or the end of a pass
CanonicalScan ==
    /\ Running /\ Top.fn = "canonical" /\ Top.pc = "scan"
    /\ LET fr == Top
           e == fr.source[fr.itr]
           appended == PathAppend(fr.result, <<e>>)
           st == symlink_status(fs, appended, fr.hasEc)
       IN  IF fr.itr > Len(fr.source)
           THEN Apply(Return(fr.result, no_error), 0, fs)
           ELSE IF e = Dot
           THEN Apply(Goto([fr EXCEPT !.itr = fr.itr + 1]), 0, fs)
           ELSE IF e = DotDot
           THEN Apply(Goto([fr EXCEPT !.result = ScanDotDot(fr.result, fr.root),
                                      !.itr = fr.itr + 1]), 0, fs)
           ELSE IF ~is_absolute(appended)
           THEN Apply(Goto([fr EXCEPT !.result = appended, !.itr = fr.itr + 1]), 0, fs)
           ELSE Apply(IF st.threw THEN Throw(st.exc)
                      ELSE IF fr.hasEc /\ st.ec # no_error THEN Return(<<>>, st.ec)
                      ELSE IF st.type = "symlink_file"
                      THEN Goto([fr EXCEPT !.result = appended, !.pc = "readlink",
                                           !.ec = no_error])
                      ELSE Goto([fr EXCEPT !.result = appended, !.itr = fr.itr + 1,
                                           !.ec = no_error]),
                      1, fs)

\* result is a symlink: read it and restart the scan on the new source
CanonicalReadSymlink ==
    /\ Running /\ Top.fn = "canonical" /\ Top.pc = "readlink"
    /\ LET fr == Top
           rl == read_symlink(fs, fr.result, fr.hasEc)
       IN  Apply(IF rl.threw THEN Throw(rl.exc)
                 ELSE IF fr.hasEc /\ rl.ec # no_error THEN Return(<<>>, rl.ec)
                 ELSE Goto([fr EXCEPT
                        !.source = NewSource(remove_filename(fr.result), rl.path,
                                             fr.source, fr.itr),
                        !.result = <<>>, !.itr = 1, !.pc = "scan",
                        !.passes = Bump(fr.passes), !.reads = Bump(fr.reads),
                        !.ec = no_error]),
                 1, fs)

----------------------------------------------------------------------------
(* remove(p, ec) and remove_all(p, ec) *)

\* ::rmdir on the entry r that the lookup of p found: it must be an empty
\* directory, and p must not end in "." or ".."
rmdir_at(f, p, r) ==
    IF r.err # no_error THEN [err |-> r.err, fs |-> f]
    ELSE IF Last(p) = Dot THEN [err |-> EINVAL, fs |-> f]
    ELSE IF Last(p) = DotDot THEN [err |-> ENOTEMPTY, fs |-> f]
    ELSE IF f[r.loc].kind # "dir" THEN [err |-> ENOTDIR, fs |-> f]
    ELSE IF r.loc \in Roots THEN [err |-> EBUSY, fs |-> f]
    ELSE IF Children(f, r.loc) # {} THEN [err |-> ENOTEMPTY, fs |-> f]
    ELSE [err |-> no_error, fs |-> [f EXCEPT ![r.loc] = NoEntry]]

\* ::unlink on the entry r: it must not be a directory
unlink_at(f, r) ==
    IF r.err # no_error THEN [err |-> r.err, fs |-> f]
    ELSE IF f[r.loc].kind = "dir" THEN [err |-> EISDIR, fs |-> f]
    ELSE [err |-> no_error, fs |-> [f EXCEPT ![r.loc] = NoEntry]]

\* ::rmdir and ::unlink; a final symlink is not followed
os_rmdir(f, p) == rmdir_at(f, p, Lookup(f, p, FALSE))
os_unlink(f, p) == unlink_at(f, Lookup(f, p, FALSE))

\* removed_or_gone, but true only if the call succeeds
removed_only(r) ==
    [ok |-> r.err = no_error, errno |-> r.err, fs |-> r.fs]

\* true if succeeds or not found
removed_or_gone(r) ==
    [ok |-> r.err = no_error \/ not_found_error(r.err), errno |-> r.err, fs |-> r.fs]

remove_directory(f, p) == removed_or_gone(os_rmdir(f, p))

remove_file(f, p) == removed_or_gone(os_unlink(f, p))

\* the error() on what remove_directory or remove_file answered
remove_result(d, er) ==
    [removed |-> ~er.failed, ec |-> er.ec, threw |-> er.threw, exc |-> er.exc,
     fs |-> d.fs]

\* remove_checked, but whatever the OS answered is handed to error() as 0
remove_checked_Silent(d, p, hasEc) ==
    remove_result(d, error(no_error, p, hasEc, "boost::filesystem::remove"))

remove_checked(d, p, hasEc) ==
    remove_result(d, error(IF ~d.ok THEN d.errno ELSE no_error, p, hasEc,
                           "boost::filesystem::remove"))

\* remove_file_or_directory(p, type, ec): removed says what it returns
remove_file_or_directory(f, p, type, hasEc) ==
    IF type = "file_not_found"
    THEN [removed |-> FALSE, ec |-> no_error, threw |-> FALSE, exc |-> NoExc, fs |-> f]
    ELSE IF type = "directory_file"
    THEN remove_checked(remove_directory(f, p), p, hasEc)
    ELSE remove_checked(remove_file(f, p), p, hasEc)

RemoveFrame(p, hasEc) ==
    [fn |-> "remove", pc |-> "start", hasEc |-> hasEc, ec |-> no_error,
     p |-> p, base |-> <<>>, type |-> ""]

\* RemoveQuery, but a missing entry is handed to error() with its errno
RemoveQuery_NotFoundIsError ==
    /\ Running /\ Top.fn = "remove" /\ Top.pc = "start"
    /\ LET fr == Top
           q == query_file_type(fs, fr.p, TRUE)
           er == error(q.ec, fr.p, fr.hasEc, "boost::filesystem::remove")
       IN  Apply(IF er.threw THEN Throw(er.exc)
                 ELSE IF er.failed THEN Return(FALSE, er.ec)
                 ELSE Goto([fr EXCEPT !.pc = "delete", !.type = q.type,
                                      !.ec = no_error]),
                 1, fs)

\* query_file_type(p, &tmp_ec) and the error() on its answer
RemoveQuery ==
    /\ Running /\ Top.fn = "remove" /\ Top.pc = "start"
    /\ LET fr == Top
           q == query_file_type(fs, fr.p, TRUE)
           er == error(IF q.type = "status_error" THEN q.ec ELSE no_error,
                       fr.p, fr.hasEc, "boost::filesystem::remove")
       IN  Apply(IF er.threw THEN Throw(er.exc)
                 ELSE IF er.failed THEN Return(FALSE, er.ec)
                 ELSE Goto([fr EXCEPT !.pc = "delete", !.type = q.type,
                                      !.ec = no_error]),
                 1, fs)

\* return remove_file_or_directory(p, type, ec)
RemoveDelete ==
    /\ Running /\ Top.fn = "remove" /\ Top.pc = "delete"
    /\ LET fr == Top
           d == remove_file_or_directory(fs, fr.p, fr.type, fr.hasEc)
       IN  Apply(IF d.threw THEN Throw(d.exc) ELSE Return(d.removed, d.ec),
                 IF fr.type = "file_not_found" THEN 0 ELSE 1, d.fs)

RemoveAllFrame(p, hasEc) ==
    [fn |-> "remove_all", pc |-> "start", hasEc |-> hasEc, ec |-> no_error,
     p |-> p, base |-> <<>>, own |-> 0]

AuxFrame(p, type, hasEc) ==
    [fn |-> "remove_all_aux", pc |-> "enter", hasEc |-> hasEc, ec |-> no_error,
     p |-> p, base |-> <<>>, type |-> type, count |-> 0, listing |-> {}]

\* query_file_type(p, &tmp_ec), the error() on its answer, and the call of
\* remove_all_aux when the entry exists
RemoveAllQuery ==
    /\ Running /\ Top.fn = "remove_all" /\ Top.pc = "start"
    /\ LET fr == Top
           q == query_file_type(fs, fr.p, TRUE)
           er == error(IF q.type = "status_error" THEN q.ec ELSE no_error,
                       fr.p, fr.hasEc, "boost::filesystem::remove_all")
       IN  Apply(IF er.threw THEN Throw(er.exc)
                 ELSE IF er.failed THEN Return(0, er.ec)
                 ELSE IF q.type # "status_error" /\ q.type # "file_not_found"
                 THEN Invoke([fr EXCEPT !.pc = "called", !.ec = no_error],
                             AuxFrame(fr.p, q.type, fr.hasEc))
                 ELSE Return(0, no_error),
                 1, fs)

\* remove_all returns what remove_all_aux returned
RemoveAllReturn ==
    /\ Running /\ Top.fn = "remove_all" /\ Top.pc = "called"
    /\ Apply(Return(ret.val, ret.ec), 0, fs)

\* directory_iterator(p) / directory_iterator(p, *ec): ::opendir follows a
\* symlink; the entries are those present when the directory is opened
directory_iterator(f, p, hasEc) ==
    LET r == Lookup(f, p, TRUE)
        err == IF r.err # no_error THEN r.err
               ELSE IF f[r.loc].kind # "dir" THEN ENOTDIR
               ELSE no_error
        er == error(err, p, hasEc, "boost::filesystem::directory_iterator::construct")
    IN  [listing |-> IF err = no_error THEN {Last(c) : c \in Children(f, r.loc)} ELSE {},
         ec |-> er.ec, threw |-> er.threw, exc |-> er.exc]

\* the names that can occur, in the order the directory keeps them
NameOrder == <<"a", "c", "q", "t", "w", "x", "y", "z">>

Rank(name) == CHOOSE i \in 1..Len(NameOrder) : NameOrder[i] = name

\* the entry the iterator stands on: the next one ::readdir hands out
next_entry(listing) ==
    CHOOSE n \in listing :
        \A m \in listing : IF order = "ascending" THEN Rank(n) <= Rank(m)
                            ELSE Rank(n) >= Rank(m)

\* AuxEnter, but every entry goes straight to its deletion, unlisted
AuxEnter_NoListing ==
    /\ Running /\ Top.fn = "remove_all_aux" /\ Top.pc = "enter"
    /\ Apply(Goto([Top EXCEPT !.pc = "delete"]), 0, fs)

\* a directory: open it; anything else: straight to the deletion
AuxEnter ==
    /\ Running /\ Top.fn = "remove_all_aux" /\ Top.pc = "enter"
    /\ LET fr == Top
           it == directory_iterator(fs, fr.p, fr.hasEc)
       IN  IF fr.type # "directory_file"
           THEN Apply(Goto([fr EXCEPT !.pc = "delete"]), 0, fs)
           ELSE Apply(IF it.threw THEN Throw(it.exc)
                      ELSE IF fr.hasEc /\ it.ec # no_error THEN Return(fr.count, it.ec)
                      ELSE Goto([fr EXCEPT !.pc = "loop", !.listing = it.listing,
                                           !.ec = no_error]),
                      1, fs)

\* while (itr != end_dit): the type of the entry the iterator stands on, then
\* the recursive call; the iterator moves on when the call is back
AuxLoop ==
    /\ Running /\ Top.fn = "remove_all_aux" /\ Top.pc = "loop"
    /\ LET fr == Top
       IN  IF fr.listing = {}
           THEN Apply(Goto([fr EXCEPT !.pc = "delete"]), 0, fs)
           ELSE \E name \in {next_entry(fr.listing)} :
                  LET child == PathAppend(fr.p, <<name>>)
                      q == query_file_type(fs, child, fr.hasEc)
                  IN  Apply(IF q.threw THEN Throw(q.exc)
                            ELSE IF fr.hasEc /\ q.ec # no_error
                            THEN Return(fr.count, q.ec)
                            ELSE Invoke([fr EXCEPT !.pc = "back",
                                                   !.listing = fr.listing \ {name},
                                                   !.ec = no_error],
                                        AuxFrame(child, q.type, fr.hasEc)),
                            1, fs)

\* AuxBack, but an error coming back from below makes it return 0
AuxBack_DropCount ==
    /\ Running /\ Top.fn = "remove_all_aux" /\ Top.pc = "back"
    /\ LET fr == Top
       IN  Apply(IF fr.hasEc /\ ret.ec # no_error
                 THEN Return(0, ret.ec)
                 ELSE Goto([fr EXCEPT !.pc = "loop", !.count = fr.count + ret.val,
                                      !.ec = no_error]),
                 0, fs)

\* count += remove_all_aux(...), then directory_iterator_increment(itr, ec)
AuxBack ==
    /\ Running /\ Top.fn = "remove_all_aux" /\ Top.pc = "back"
    /\ LET fr == Top
       IN  Apply(IF fr.hasEc /\ ret.ec # no_error
                 THEN Return(fr.count + ret.val, ret.ec)
                 ELSE Goto([fr EXCEPT !.pc = "loop", !.count = fr.count + ret.val,
                                      !.ec = no_error]),
                 0, fs)

\* remove_file_or_directory(p, type, ec) on the entry itself, then ++count
AuxDelete ==
    /\ Running /\ Top.fn = "remove_all_aux" /\ Top.pc = "delete"
    /\ LET fr == Top
           d == remove_file_or_directory(fs, fr.p, fr.type, fr.hasEc)
       IN  Apply(IF d.threw THEN Throw(d.exc)
                 ELSE IF fr.hasEc /\ d.ec # no_error THEN Return(fr.count, d.ec)
                 ELSE Return(fr.count + 1, no_error),
                 IF fr.type = "file_not_found" THEN 0 ELSE 1, d.fs)

----------------------------------------------------------------------------
(* weakly_canonical(p, ec) and relative(p, base, ec) *)

\* path::filename: the last element
filename(p) == IF p = <<>> THEN "" ELSE Last(p)

\* path::lexically_normal: "." goes except as first or last element, a name
\* goes together with the ".." after it, an empty result becomes "."
lexically_normal(p) ==
    LET n == Len(p)
        Temp[k \in 0..n] ==
            IF k = 0 THEN <<>>
            ELSE LET t == Temp[k - 1]
                     e == p[k]
                     lf == filename(t)
                 IN  IF e = Dot /\ k # 1 /\ k # n THEN t
                     ELSE IF t # <<>> /\ e = DotDot /\ lf \notin {Dot, Sep, DotDot}
                     THEN IF remove_filename(t) = <<>> /\ k + 1 = n /\ p[n] = Dot
                          THEN <<Dot>>
                          ELSE remove_filename(t)
                     ELSE PathAppend(t, <<e>>)
    IN  IF p = <<>> THEN p
        ELSE IF Temp[n] = <<>> THEN <<Dot>>
        ELSE Temp[n]

\* the length of the longest common leading element sequence
RECURSIVE Mismatch(_, _)
Mismatch(a, b) ==
    IF a = <<>> \/ b = <<>> \/ Head(a) # Head(b) THEN 0
    ELSE 1 + Mismatch(Tail(a), Tail(b))

\* path::lexically_relative: ".." for each element of base after the common
\* prefix, then the elements of the path after it
lexically_relative(p, base) ==
    LET m == Mismatch(p, base)
        ups == [i \in 1..(Len(base) - m) |-> DotDot]
    IN  ups \o SubSeq(p, m + 1, Len(p))

WeaklyFrame(p, hasEc) ==
    [fn |-> "weakly_canonical", pc |-> "probe", hasEc |-> hasEc, ec |-> no_error,
     p |-> p, base |-> <<>>, head |-> p, itr |-> Len(p) + 1]

\* a "." or ".." element in the tail
tail_has_dots(tail) == \E k \in 1..Len(tail) : tail[k] = Dot \/ tail[k] = DotDot

\* the bool (type == status_error) handed to error() as the error number
ErrorNumOfBool(b) == IF b THEN EPERM ELSE no_error

\* WeaklyProbe, but with no prefix left it returns the path as it came
WeaklyProbe_NoFallback ==
    /\ Running /\ Top.fn = "weakly_canonical" /\ Top.pc = "probe"
    /\ LET fr == Top
           st == status(fs, fr.head, TRUE)
           er == error(ErrorNumOfBool(st.type = "status_error"), fr.head, fr.hasEc,
                       "boost::filesystem::weakly_canonical")
       IN  IF fr.head = <<>>
           THEN Apply(Return(fr.p, fr.ec), 0, fs)
           ELSE Apply(IF er.threw THEN Throw(er.exc)
                      ELSE IF er.failed THEN Return(<<>>, er.ec)
                      ELSE IF st.type # "file_not_found"
                      THEN Invoke([fr EXCEPT !.pc = "resolved", !.ec = no_error],
                                  CanonicalFrame(fr.head, current_path, TRUE))
                      ELSE Goto([fr EXCEPT !.head = remove_filename(fr.head),
                                           !.itr = fr.itr - 1, !.ec = no_error]),
                      1, fs)

\* for (; !head.empty(); --itr): status(head, tmp_ec); once the loop is over,
\* the lexical answer when no prefix exists, else canonical(head, tmp_ec)
WeaklyProbe ==
    /\ Running /\ Top.fn = "weakly_canonical" /\ Top.pc = "probe"
    /\ LET fr == Top
           st == status(fs, fr.head, TRUE)
           er == error(ErrorNumOfBool(st.type = "status_error"), fr.head, fr.hasEc,
                       "boost::filesystem::weakly_canonical")
       IN  IF fr.head = <<>>
           THEN Apply(Return(lexically_normal(fr.p), fr.ec), 0, fs)
           ELSE Apply(IF er.threw THEN Throw(er.exc)
                      ELSE IF er.failed THEN Return(<<>>, er.ec)
                      ELSE IF st.type # "file_not_found"
                      THEN Invoke([fr EXCEPT !.pc = "resolved", !.ec = no_error],
                                  CanonicalFrame(fr.head, current_path, TRUE))
                      ELSE Goto([fr EXCEPT !.head = remove_filename(fr.head),
                                           !.itr = fr.itr - 1, !.ec = no_error]),
                      1, fs)

\* WeaklyJoin, but the tail is appended as it is, dots or not
WeaklyJoin_NoNormal ==
    /\ Running /\ Top.fn = "weakly_canonical" /\ Top.pc = "resolved"
    /\ LET fr == Top
           head == ret.val
           tail == SubSeq(fr.p, fr.itr, Len(fr.p))
           er == error(ret.ec, head, fr.hasEc, "boost::filesystem::weakly_canonical")
       IN  Apply(IF er.threw THEN Throw(er.exc)
                 ELSE IF er.failed THEN Return(<<>>, er.ec)
                 ELSE Return(IF tail = <<>> THEN head ELSE PathAppend(head, tail),
                             no_error),
                 0, fs)

\* head = canonical(head, tmp_ec), the error() on tmp_ec, and the result
WeaklyJoin ==
    /\ Running /\ Top.fn = "weakly_canonical" /\ Top.pc = "resolved"
    /\ LET fr == Top
           head == ret.val
           tail == SubSeq(fr.p, fr.itr, Len(fr.p))
           er == error(ret.ec, head, fr.hasEc, "boost::filesystem::weakly_canonical")
       IN  Apply(IF er.threw THEN Throw(er.exc)
                 ELSE IF er.failed THEN Return(<<>>, er.ec)
                 ELSE Return(IF tail = <<>> THEN head
                             ELSE IF tail_has_dots(tail)
                                  THEN lexically_normal(PathAppend(head, tail))
                                  ELSE PathAppend(head, tail),
                             no_error),
                 0, fs)

RelativeFrame(p, base, hasEc) ==
    [fn |-> "relative", pc |-> "start", hasEc |-> hasEc, ec |-> no_error,
     p |-> p, base |-> base, wc_base |-> <<>>]

\* path wc_base(weakly_canonical(base, &tmp_ec))
RelativeStart ==
    /\ Running /\ Top.fn = "relative" /\ Top.pc = "start"
    /\ Apply(Invoke([Top EXCEPT !.pc = "base"], WeaklyFrame(Top.base, TRUE)), 0, fs)

\* the error() on tmp_ec, then path wc_p(weakly_canonical(p, &tmp_ec))
RelativeBase ==
    /\ Running /\ Top.fn = "relative" /\ Top.pc = "base"
    /\ LET fr == Top
           er == error(ret.ec, fr.base, fr.hasEc, "boost::filesystem::relative")
       IN  Apply(IF er.threw THEN Throw(er.exc)
                 ELSE IF er.failed THEN Return(<<>>, er.ec)
                 ELSE Invoke([fr EXCEPT !.pc = "path", !.wc_base = ret.val,
                                        !.ec = no_error],
                             WeaklyFrame(fr.p, TRUE)),
                 0, fs)

\* RelativePath, but the derivation is made whatever tmp_ec holds
RelativePath_Partial ==
    /\ Running /\ Top.fn = "relative" /\ Top.pc = "path"
    /\ Apply(Return(lexically_relative(ret.val, Top.wc_base), ret.ec), 0, fs)

\* RelativePath, but the two weakly canonical paths change places
RelativePath_Swapped ==
    /\ Running /\ Top.fn = "relative" /\ Top.pc = "path"
    /\ LET fr == Top
           er == error(ret.ec, fr.base, fr.hasEc, "boost::filesystem::relative")
       IN  Apply(IF er.threw THEN Throw(er.exc)
                 ELSE IF er.failed THEN Return(<<>>, er.ec)
                 ELSE Return(lexically_relative(fr.wc_base, ret.val), no_error),
                 0, fs)

\* the error() on tmp_ec, then wc_p.lexically_relative(wc_base)
RelativePath ==
    /\ Running /\ Top.fn = "relative" /\ Top.pc = "path"
    /\ LET fr == Top
           er == error(ret.ec, fr.base, fr.hasEc, "boost::filesystem::relative")
       IN  Apply(IF er.threw THEN Throw(er.exc)
                 ELSE IF er.failed THEN Return(<<>>, er.ec)
                 ELSE Return(lexically_relative(ret.val, fr.wc_base), no_error),
                 0, fs)

----------------------------------------------------------------------------
(* Filesystems and inputs of the canonical runs *)

LocA == <<Sep, "a">>
LocC == <<Sep, "c">>
LocCA == <<Sep, "c", "a">>
LocCC == <<Sep, "c", "c">>
LocNA == <<NetName, Sep, "a">>

Universe == Roots \cup {LocA, LocC, LocCA, LocCC, LocNA}

Plain == {NoEntry, FileEntry}

CanonFileSystems ==
    {[l \in Universe |->
        CASE l = LocA -> a
          [] l = LocCA -> ca
          [] l = LocCC -> cc
          [] l = LocNA -> na
          [] OTHER -> DirEntry] :
        a \in {NoEntry, LinkEntry(<<"c", "a">>), LinkEntry(LocNA), LinkEntry(LocCC)},
        ca \in Plain \cup {DirEntry, LinkEntry(<<"c">>), LinkEntry(<<DotDot, "a">>)},
        cc \in Plain,
        na \in {NoEntry, DirEntry, LinkEntry(LocC), LinkEntry(<<Sep, DotDot>>)}}

SeqsUpTo(S, n) == UNION {[1..k -> S] : k \in 0..n}

InputElems == {"a", "c", Dot, DotDot}

InputPaths ==
    {r \o q : r \in {<<>>, MainRoot, NetRoot}, q \in SeqsUpTo(InputElems, MaxPathLen)}

\* a relative base is tried with the shortest relative paths
Bases(p) ==
    IF is_absolute(p) \/ Len(p) > 1 THEN {current_path} ELSE {current_path, <<"a">>}

InitCanonical ==
    /\ fs \in CanonFileSystems
    /\ fs0 = fs
    /\ stack = <<>>
    /\ ret = NoRet
    /\ log = <<>>
    /\ tick = 0
    /\ hist = <<>>
    /\ done = 0
    /\ phase = "first"
    /\ order = "ascending"

\* the first call of a behaviour
CallCanonical ==
    /\ stack = <<>> /\ log = <<>> /\ phase = "first"
    /\ \E p \in InputPaths, hasEc \in BOOLEAN :
         \E base \in Bases(p) :
            stack' = <<CanonicalFrame(p, base, hasEc)>>
    /\ tick' = 0
    /\ UNCHANGED <<fs, fs0, ret, log, hist, done, phase, order>>

\* one hop of a symlink, as a path: the target, or the target beside the link
LinkHop(f, p) ==
    LET t == read_symlink(f, p, TRUE).path
    IN  IF is_absolute(t) THEN t ELSE PathAppend(remove_filename(p), t)

RECURSIVE ChainEnd(_, _, _)
ChainEnd(f, p, n) ==
    IF n = 0 \/ symlink_status(f, p, TRUE).type # "symlink_file" THEN p
    ELSE ChainEnd(f, LinkHop(f, p), n - 1)

\* the path a call resolves: p, made absolute against base when relative
SourceOfCall(e) == IF is_absolute(e.p) THEN e.p ELSE absolute(e.p, e.base)

\* what a caller may canonicalize next: the result it got, or the entry at
\* the end of the symlink chain it asked about
FollowUps(e) ==
    (IF ~e.raised /\ e.ec = no_error THEN {e.val} ELSE {})
    \cup (IF symlink_status(fs, SourceOfCall(e), TRUE).type = "symlink_file"
          THEN {ChainEnd(fs, SourceOfCall(e), MaxSymlinkHops)} ELSE {})

CallFollowUp ==
    /\ stack = <<>> /\ log # <<>> /\ Len(log) < MaxCalls
    /\ phase \in {"first", "next"}
    /\ \E p \in FollowUps(Last(log)) :
         stack' = <<CanonicalFrame(p, Last(log).base, Last(log).hasEc)>>
    /\ phase' = "next"
    /\ tick' = 0
    /\ UNCHANGED <<fs, fs0, ret, log, hist, done, order>>

NextCanonical ==
    \/ CallCanonical
    \/ CallFollowUp
    \/ CanonicalStart
    \/ CanonicalScan
    \/ CanonicalReadSymlink

SpecCanonical == InitCanonical /\ [][NextCanonical]_vars

----------------------------------------------------------------------------
(* The core operations under changes made by another process *)

LocT == <<Sep, "t">>
LocTX == <<Sep, "t", "x">>
LocTW == <<Sep, "t", "w">>
LocTY == <<Sep, "t", "y">>
LocTYZ == <<Sep, "t", "y", "z">>

RaceUniverse == {MainRoot, LocT, LocTX, LocTW, LocTY, LocTYZ}

\* the tree /t with the files x and w and the directory y holding the file z,
\* each present or not; x may also be a symlink to y, and z a symlink to /t
RaceFileSystems ==
    {[l \in RaceUniverse |->
        CASE l = LocTX -> x
          [] l = LocTW -> w
          [] l = LocTY -> y
          [] l = LocTYZ -> (IF y = DirEntry THEN z ELSE NoEntry)
          [] OTHER -> DirEntry] :
        x \in Plain \cup {LinkEntry(<<"y">>)},
        w \in Plain,
        y \in {NoEntry, DirEntry},
        z \in Plain \cup {LinkEntry(<<DotDot>>)}}

RacePaths ==
    {LocT, LocTX, LocTY, LocTYZ, LocTX \o <<"z">>, LocTX \o <<DotDot>>,
     LocTY \o <<"q">>}

RelativePairs == {LocTYZ, LocTX \o <<"z">>} \X {LocTX, LocTW}

\* what the other process may do: delete a file, a symlink or an empty
\* directory, or create a file in a directory
Changes(f) ==
    {[kind |-> "delete", loc |-> l] :
        l \in {c \in DOMAIN f \ Roots : f[c].kind # "none" /\ Children(f, c) = {}}}
    \cup {[kind |-> "create", loc |-> l] :
        l \in {c \in DOMAIN f \ Roots : f[c].kind = "none" /\ f[Front(c)].kind = "dir"}}

ApplyChange(f, ch) ==
    IF ch \notin Changes(f) THEN f
    ELSE IF ch.kind = "delete" THEN [f EXCEPT ![ch.loc] = NoEntry]
    ELSE [f EXCEPT ![ch.loc] = FileEntry]

InitRace ==
    /\ fs \in RaceFileSystems
    /\ fs0 = fs
    /\ stack = <<>>
    /\ ret = NoRet
    /\ log = <<>>
    /\ tick = 0
    /\ hist = <<>>
    /\ done = 0
    /\ phase = "first"
    /\ order \in {"ascending", "descending"}

FirstFrames(hasEc) ==
    {CanonicalFrame(p, current_path, hasEc) : p \in RacePaths}
    \cup {WeaklyFrame(p, hasEc) : p \in RacePaths}
    \cup {RelativeFrame(pb[1], pb[2], hasEc) : pb \in RelativePairs}
    \cup {RemoveFrame(p, hasEc) : p \in RacePaths}
    \cup {RemoveAllFrame(p, hasEc) : p \in RacePaths}

\* the first call of a behaviour: any core operation, with or without a slot
CallFirst ==
    /\ stack = <<>> /\ log = <<>> /\ phase = "first"
    /\ \E hasEc \in BOOLEAN : \E fr \in FirstFrames(hasEc) : stack' = <<fr>>
    /\ tick' = 0
    /\ UNCHANGED <<fs, fs0, ret, log, hist, done, phase, order>>

FrameOf(e, hasEc) ==
    CASE e.op = "canonical" -> CanonicalFrame(e.p, e.base, hasEc)
      [] e.op = "weakly_canonical" -> WeaklyFrame(e.p, hasEc)
      [] e.op = "relative" -> RelativeFrame(e.p, e.base, hasEc)
      [] e.op = "remove" -> RemoveFrame(e.p, hasEc)
      [] e.op = "remove_all" -> RemoveAllFrame(e.p, hasEc)

\* the call that was made without an error slot, made again with one, from
\* the same filesystem and under the same changes of the other process
CallRepeat ==
    /\ stack = <<>> /\ Len(log) = 1 /\ phase = "first" /\ ~log[1].hasEc
    /\ Len(log) < MaxCalls
    /\ stack' = <<FrameOf(log[1], TRUE)>>
    /\ fs' = fs0
    /\ tick' = 0
    /\ done' = 0
    /\ phase' = "repeat"
    /\ UNCHANGED <<fs0, ret, log, hist, order>>

Resolves(f, p, loc) == Lookup(f, p, FALSE) = [err |-> no_error, loc |-> loc]

\* remove_all has listed the entry at loc and has not deleted it yet: its name
\* waits in an open directory's listing, or remove_all_aux is busy with it
Listed(loc) ==
    \E k \in 1..Len(stack) :
        /\ stack[k].fn = "remove_all_aux"
        /\ \/ /\ stack[k].pc \in {"loop", "back"}
              /\ \E name \in stack[k].listing :
                    Resolves(fs, PathAppend(stack[k].p, <<name>>), loc)
           \/ /\ k > 1
              /\ stack[k - 1].fn = "remove_all_aux"
              /\ Resolves(fs, stack[k].p, loc)

\* the other process changes the filesystem between two system calls
ExtChange ==
    /\ stack # <<>> /\ phase = "first" /\ tick >= 1 /\ Len(hist) < MaxExt
    /\ \E ch \in Changes(fs) :
         /\ fs' = ApplyChange(fs, ch)
         /\ hist' = Append(hist, [at |-> tick, ch |-> ch, listed |-> Listed(ch.loc)])
    /\ UNCHANGED <<fs0, stack, ret, log, tick, done, phase, order>>

\* the same change at the same point of the repeated call
ExtReplay ==
    /\ stack # <<>> /\ ReplayPending
    /\ fs' = ApplyChange(fs, hist[done + 1].ch)
    /\ done' = done + 1
    /\ UNCHANGED <<fs0, stack, ret, log, tick, hist, phase, order>>

NextRace ==
    \/ CallFirst
    \/ CallRepeat
    \/ ExtChange
    \/ ExtReplay
    \/ CanonicalStart
    \/ CanonicalScan
    \/ CanonicalReadSymlink
    \/ WeaklyProbe
    \/ WeaklyJoin
    \/ RelativeStart
    \/ RelativeBase
    \/ RelativePath
    \/ RemoveQuery
    \/ RemoveDelete
    \/ RemoveAllQuery
    \/ RemoveAllReturn
    \/ AuxEnter
    \/ AuxLoop
    \/ AuxBack
    \/ AuxDelete

SpecRace == InitRace /\ [][NextRace]_vars

----------------------------------------------------------------------------
(* weakly_canonical and relative on an unchanging filesystem *)

\* the tree /t with the directory y holding the file z, the symlink x to y,
\* and w, a file or a symlink to itself, each present or not
WeakFileSystems ==
    {[l \in RaceUniverse |->
        CASE l = LocTX -> x
          [] l = LocTW -> w
          [] l = LocTY -> y
          [] l = LocTYZ -> (IF y = DirEntry THEN z ELSE NoEntry)
          [] OTHER -> DirEntry] :
        x \in {NoEntry, LinkEntry(<<"y">>)},
        w \in Plain \cup {LinkEntry(<<"w">>)},
        y \in {NoEntry, DirEntry},
        z \in Plain}

\* paths with and without a part that does not exist, with ".." behind it,
\* and a relative path of which nothing exists in the current directory
WeakPaths ==
    {LocTW, LocTYZ, LocTX \o <<"z">>, LocTY \o <<"q">>,
     LocTY \o <<"q", DotDot, DotDot>>,
     LocTX \o <<"q", DotDot, DotDot, "w">>, <<"q", DotDot, "w">>}

WeakPairs ==
    {<<LocTW, LocTY>>, <<LocTYZ, LocTW>>, <<LocTX \o <<"z">>, LocTY \o <<"q">>>>}

InitWeak ==
    /\ fs \in WeakFileSystems
    /\ fs0 = fs
    /\ stack = <<>>
    /\ ret = NoRet
    /\ log = <<>>
    /\ tick = 0
    /\ hist = <<>>
    /\ done = 0
    /\ phase = "first"
    /\ order = "ascending"

\* one call of weakly_canonical or relative, with or without a slot
CallWeak ==
    /\ stack = <<>> /\ log = <<>>
    /\ \E hasEc \in BOOLEAN :
         \/ \E p \in WeakPaths : stack' = <<WeaklyFrame(p, hasEc)>>
         \/ \E pb \in WeakPairs : stack' = <<RelativeFrame(pb[1], pb[2], hasEc)>>
    /\ tick' = 0
    /\ UNCHANGED <<fs, fs0, ret, log, hist, done, phase, order>>

NextWeak ==
    \/ CallWeak
    \/ CanonicalStart
    \/ CanonicalScan
    \/ CanonicalReadSymlink
    \/ WeaklyProbe
    \/ WeaklyJoin
    \/ RelativeStart
    \/ RelativeBase
    \/ RelativePath

SpecWeak == InitWeak /\ [][NextWeak]_vars

----------------------------------------------------------------------------
(* Claims about canonical on an unchanging filesystem *)

Succeeded(e) == ~e.raised /\ e.ec = no_error
Failed(e) == e.raised \/ e.ec # no_error

CanonicalCalls == {i \in 1..Len(log) : log[i].op = "canonical"}

SourceOf(e) == SourceOfCall(e)

Prefixes(p) == {SubSeq(p, 1, k) : k \in 1..Len(p)}

HasDots(p) == \E k \in 1..Len(p) : p[k] = Dot \/ p[k] = DotDot

IsSymlink(f, p) == Lookup(f, p, FALSE).err = no_error
                   /\ f[Lookup(f, p, FALSE).loc].kind = "link"

IsCanonicalForm(f, p) ==
    /\ is_absolute(p)
    /\ ~HasDots(p)
    /\ \A q \in Prefixes(p) : ~IsSymlink(f, q)

\* C1: whenever canonical(p, base) returns a result for an existing path on an
\* unchanging filesystem, the result is absolute, has no "." or ".." element
\* and no prefix of it (itself included) is a symbolic link.
C1_CanonicalForm ==
    \A i \in CanonicalCalls :
        Succeeded(log[i]) => IsCanonicalForm(fs, log[i].val)

\* C2: the path canonical(p) returns names the entry that status(p) reaches:
\* the kernel's lookup of the result (following symlinks, ".." being the
\* physical parent) ends at the same entry as its lookup of the source path.
C2_SameEntry ==
    \A i \in CanonicalCalls :
        Succeeded(log[i]) =>
            /\ Lookup(fs, log[i].val, TRUE).err = no_error
            /\ Lookup(fs, log[i].val, TRUE).loc = Lookup(fs, SourceOf(log[i]), TRUE).loc

InScan == stack # <<>> /\ Top.fn = "canonical" /\ Top.pc = "scan"
AtDotDot == InScan /\ Top.itr <= Len(Top.source) /\ Top.source[Top.itr] = DotDot

\* C7: ".." never climbs above the root: in every scan pass a ".." step taken
\* while the accumulated result is a root path (a root directory with nothing
\* after it) leaves the result unchanged.
C7_RootGuard ==
    [][AtDotDot /\ is_absolute(Top.result) /\ relative_path(Top.result) = <<>>
        => stack'[Len(stack')].result = Top.result]_vars

\* C8: canonical is idempotent: canonical of a result canonical returned, with
\* the same base on the same filesystem, succeeds and returns that same path.
C8_Idempotent ==
    \A i, j \in CanonicalCalls :
        (i < j /\ Succeeded(log[i]) /\ log[j].p = log[i].val)
            => (Succeeded(log[j]) /\ log[j].val = log[i].val)

IsChainHead(f, p) ==
    /\ symlink_status(f, p, TRUE).type = "symlink_file"
    /\ status(f, p, TRUE).type \in {"regular_file", "directory_file"}
    /\ symlink_status(f, ChainEnd(f, p, MaxSymlinkHops), TRUE).type
           \in {"regular_file", "directory_file"}

\* C9: for a symlink a at the head of an acyclic chain that ends at an existing
\* entry c which is no symlink, canonical(a) equals canonical(c).
C9_ChainRoundTrip ==
    \A i, j \in CanonicalCalls :
        (i < j /\ IsChainHead(fs, SourceOf(log[i]))
               /\ log[j].p = ChainEnd(fs, SourceOf(log[i]), MaxSymlinkHops))
            => (Succeeded(log[i]) /\ Succeeded(log[j]) /\ log[j].val = log[i].val)

\* C10: when status(source) answers not-found (a dangling symlink included),
\* canonical fails with no_such_file_or_directory before any scan pass and
\* before reading any symlink: with an error slot it writes the error and
\* returns the empty path, without one it raises.
C10_NotFoundUpFront ==
    \A i \in CanonicalCalls :
        status(log[i].fsBefore, SourceOf(log[i]), TRUE).type = "file_not_found"
            => /\ log[i].passes = 0 /\ log[i].reads = 0
               /\ log[i].hasEc =>
                    (~log[i].raised /\ log[i].ec = no_such_file_or_directory
                        /\ log[i].val = <<>>)
               /\ ~log[i].hasEc =>
                    (log[i].raised /\ log[i].exc.code = no_such_file_or_directory
                        /\ log[i].exc.path1 = SourceOf(log[i]))

\* a call on a dangling symlink has failed, in the error slot
C10_Witness ==
    \E i \in CanonicalCalls :
        /\ symlink_status(log[i].fsBefore, SourceOf(log[i]), TRUE).type = "symlink_file"
        /\ status(log[i].fsBefore, SourceOf(log[i]), TRUE).type = "file_not_found"
        /\ log[i].hasEc /\ log[i].ec = no_such_file_or_directory

----------------------------------------------------------------------------
(* Claims about the core operations while another process may interfere *)

IsPrefix(a, b) == Len(a) <= Len(b) /\ SubSeq(b, 1, Len(a)) = a

\* the entries of f at and below loc
Subtree(f, loc) == {c \in DOMAIN f : Exists(f, c) /\ IsPrefix(loc, c)}

\* the entry the argument of a finished call named when the call began
RootOf(e) == Lookup(e.fsBefore, e.p, FALSE)

RemoveAllCalls == {i \in 1..Len(log) : log[i].op = "remove_all"}

\* C3: remove_all(p) on a filesystem nobody else modifies returns the number
\* of entries of the subtree at p, p included, and leaves none of them; it
\* returns 0 with no error when p does not exist.
C3_RemoveAllCount ==
    \A i \in RemoveAllCalls :
        LET e == log[i]
            r == RootOf(e)
        IN  e.ext = 0 =>
              IF r.err # no_error
              THEN Succeeded(e) /\ e.val = 0
              ELSE Succeeded(e) =>
                     /\ e.val = Cardinality(Subtree(e.fsBefore, r.loc))
                     /\ Subtree(e.fsAfter, r.loc) = {}

\* the other process did nothing during the call e but delete entries that
\* remove_all had listed and not yet deleted
OnlyListedDeleted(e) ==
    /\ e.ext >= 1
    /\ \A k \in 1..e.ext : hist[k].ch.kind = "delete" /\ hist[k].listed

\* C4: when another process deletes an entry after remove_all listed it and
\* before remove_all deletes it, remove_all reports no error, raised or in
\* the slot, and removes the rest of the subtree.
C4_RaceTolerant ==
    \A i \in RemoveAllCalls :
        LET e == log[i]
        IN  OnlyListedDeleted(e) /\ RootOf(e).err = no_error =>
              /\ Succeeded(e)
              /\ Subtree(e.fsAfter, RootOf(e).loc) = {}

\* C5: the call without an error slot raises exactly when the same call with
\* a slot, on the same filesystem under the same changes of the other
\* process, leaves a non-zero error in the slot.
C5_DualMode ==
    (phase = "repeat" /\ Len(log) = 2) =>
        (log[1].raised <=> log[2].ec # no_error)

Sentinel(op) ==
    CASE op = "remove" -> FALSE
      [] op = "remove_all" -> 0
      [] OTHER -> EmptyPath

SlotFailures == {i \in 1..Len(log) : log[i].hasEc /\ log[i].ec # no_error}

Gone(e) == {c \in DOMAIN e.fsBefore : Exists(e.fsBefore, c) /\ ~Exists(e.fsAfter, c)}

DirLinks(f, loc) ==
    {<<l, Lookup(f, l, TRUE).loc>> : l \in
        {c \in Subtree(f, loc) :
            /\ f[c].kind = "link"
            /\ Lookup(f, c, TRUE).err = no_error
            /\ f[Lookup(f, c, TRUE).loc].kind = "dir"}}

\* C11: remove_all never traverses a symlink: a symlink to a directory, p
\* itself or an entry below p, is deleted as one entry, and the directory it
\* leads to and everything in it outside the subtree of p stay as they were.
C11_NoTraversal ==
    \A i \in RemoveAllCalls :
        LET e == log[i]
            r == RootOf(e)
        IN  (e.ext = 0 /\ r.err = no_error) =>
              /\ \A ld \in DirLinks(e.fsBefore, r.loc) :
                   \A c \in Subtree(e.fsBefore, ld[2]) :
                       IsPrefix(r.loc, c) \/ e.fsAfter[c] = e.fsBefore[c]
              /\ (e.fsBefore[r.loc].kind = "link" /\ Succeeded(e)) => e.val = 1

\* a finished remove_all of a directory that held a symlink to a directory
\* with entries outside the subtree, and of a symlink to a directory
C11_Witness ==
    /\ \E i \in RemoveAllCalls :
         /\ Succeeded(log[i]) /\ log[i].ext = 0 /\ log[i].val = 2
         /\ RootOf(log[i]).err = no_error
         /\ \E ld \in DirLinks(log[i].fsBefore, RootOf(log[i]).loc) :
              \E c \in Subtree(log[i].fsBefore, ld[2]) :
                  c # ld[2] /\ ~IsPrefix(RootOf(log[i]).loc, c)

RemoveCalls == {i \in 1..Len(log) : log[i].op = "remove"}

\* C12: remove(p) on a path that does not exist returns false, deletes
\* nothing and reports no error, raised or in the slot.
C12_RemoveMissing ==
    \A i \in RemoveCalls :
        LET e == log[i]
        IN  not_found_error(RootOf(e).err) =>
              /\ Succeeded(e)
              /\ e.val = FALSE
              /\ e.ext = 0 => e.fsAfter = e.fsBefore

\* a remove of a missing path has finished, with a slot
C12_Witness ==
    \E i \in RemoveCalls :
        log[i].hasEc /\ not_found_error(RootOf(log[i]).err) /\ log[i].val = FALSE

\* all the other process did during the call e was to delete the entry that
\* the argument of e named
OnlyTargetDeleted(e) ==
    /\ e.ext >= 1
    /\ RootOf(e).err = no_error
    /\ \A k \in 1..e.ext :
         hist[k].ch = [kind |-> "delete", loc |-> RootOf(e).loc]

\* C13: when p was there at the type query of remove(p) and another process
\* removes it before ::rmdir or ::unlink, remove reports no error and returns
\* true, as for a removal of its own.
C13_LostRace ==
    \A i \in RemoveCalls :
        OnlyTargetDeleted(log[i]) => Succeeded(log[i]) /\ log[i].val = TRUE

\* a remove has finished whose entry the other process deleted after the
\* type query
C13_Witness ==
    \E i \in RemoveCalls :
        /\ OnlyTargetDeleted(log[i])
        /\ log[i].val = TRUE
        /\ ~Exists(log[i].fsAfter, RootOf(log[i]).loc)

\* the argument of e named a directory with entries in it
NonEmptyDir(e) ==
    /\ RootOf(e).err = no_error
    /\ e.fsBefore[RootOf(e).loc].kind = "dir"
    /\ Children(e.fsBefore, RootOf(e).loc) # {}

\* C14: remove(p) on a non-empty directory, which the OS refuses to delete,
\* reports ENOTEMPTY, raised or in the slot with the value false, and leaves
\* the filesystem as it was.
C14_RefusalPropagates ==
    \A i \in RemoveCalls :
        LET e == log[i]
        IN  (e.ext = 0 /\ NonEmptyDir(e)) =>
              /\ IF e.hasEc
                 THEN ~e.raised /\ e.ec = ENOTEMPTY /\ e.val = FALSE
                 ELSE e.raised /\ e.exc.code = ENOTEMPTY
              /\ e.fsAfter = e.fsBefore

\* a remove of a non-empty directory has raised
C14_Witness ==
    \E i \in RemoveCalls :
        log[i].ext = 0 /\ NonEmptyDir(log[i]) /\ log[i].raised

RelativeCalls == {i \in 1..Len(log) : log[i].op = "relative"}

\* the prefixes of p that status finds on the filesystem f
ExistingPrefixes(f, p) ==
    {k \in 1..Len(p) : Lookup(f, SubSeq(p, 1, k), TRUE).err = no_error}

\* the length of the longest of them, 0 if there is none
HeadLen(f, p) ==
    IF ExistingPrefixes(f, p) = {} THEN 0
    ELSE CHOOSE k \in ExistingPrefixes(f, p) : \A j \in ExistingPrefixes(f, p) : j <= k

\* the weakly canonical form of a path p without "." and ".." in the part
\* that does not exist: where the kernel finds the existing part, then the rest
WeakForm(f, p) ==
    Lookup(f, SubSeq(p, 1, HeadLen(f, p)), TRUE).loc
        \o SubSeq(p, HeadLen(f, p) + 1, Len(p))

\* the elements two paths have in common at their front
CommonLen(P, B) ==
    CHOOSE k \in 0..Len(P) :
        /\ k <= Len(B)
        /\ SubSeq(P, 1, k) = SubSeq(B, 1, k)
        /\ (k < Len(P) /\ k < Len(B)) => P[k + 1] # B[k + 1]

Derived(P, B) ==
    [i \in 1..(Len(B) - CommonLen(P, B)) |-> DotDot]
        \o SubSeq(P, CommonLen(P, B) + 1, Len(P))

\* C15: relative(path, base) is, for the weakly canonical forms P and B of
\* path and base, one ".." for each element of B after the longest common
\* leading element sequence, followed by the elements of P after it.
C15_RelativeDerivation ==
    \A i \in RelativeCalls :
        LET e == log[i]
        IN  e.ext = 0 =>
              /\ Succeeded(e)
              /\ e.val = Derived(WeakForm(e.fsBefore, e.p), WeakForm(e.fsBefore, e.base))

\* a relative call has answered with ".." elements followed by names, for a
\* path that reaches its entry through a symlink
C15_Witness ==
    \E i \in RelativeCalls :
        /\ log[i].ext = 0
        /\ Len(log[i].val) >= 3
        /\ log[i].val[1] = DotDot
        /\ WeakForm(log[i].fsBefore, log[i].p) # log[i].p

\* C16: when the weak canonicalization of base or of path fails inside
\* relative, relative reports that error and derives nothing: the empty path
\* with the error in the slot, or an exception.
C16_NoPartialResult ==
    [][(/\ stack # <<>>
        /\ Top.fn = "relative"
        /\ Top.pc \in {"base", "path"}
        /\ ret.ec # no_error
        /\ stack' # stack)
       => /\ stack' = <<>>
          /\ log' # log
          /\ LET e == log'[Len(log')]
             IN  IF Top.hasEc
                 THEN ~e.raised /\ e.val = EmptyPath /\ e.ec = ret.ec
                 ELSE e.raised /\ e.exc.code = ret.ec]_vars

\* a relative call with a slot has failed
C16_Witness ==
    \E i \in RelativeCalls :
        log[i].hasEc /\ log[i].ec # no_error /\ log[i].val = EmptyPath

WeaklyCalls == {i \in 1..Len(log) : log[i].op = "weakly_canonical"}

\* the part of p that exists, where the kernel finds it, and the rest of p
HeadOf(f, p) == Lookup(f, SubSeq(p, 1, HeadLen(f, p)), TRUE).loc
TailOf(f, p) == SubSeq(p, HeadLen(f, p) + 1, Len(p))

\* every prefix of p longer than the head is missing, for status
TailMissing(f, p) ==
    \A k \in (HeadLen(f, p) + 1)..Len(p) :
        not_found_error(Lookup(f, SubSeq(p, 1, k), TRUE).err)

\* C17 as stated: weakly_canonical(p) is canonical(head) with
\* lexically_normal(tail) appended, head the longest prefix of p that exists
\* and tail the rest; "." and ".." of tail are resolved within tail only
\* (a tail that normalizes to nothing adds nothing).
C17_HeadThenNormalTail ==
    \A i \in WeaklyCalls :
        LET e == log[i]
            f == e.fsBefore
        IN  (HeadLen(f, e.p) > 0 /\ TailMissing(f, e.p)) =>
              /\ Succeeded(e)
              /\ e.val = IF lexically_normal(TailOf(f, e.p)) \in {<<>>, <<Dot>>}
                         THEN HeadOf(f, e.p)
                         ELSE PathAppend(HeadOf(f, e.p),
                                         lexically_normal(TailOf(f, e.p)))

\* C17, amended: weakly_canonical(p) is canonical(head) with tail appended,
\* and the whole of it lexically normalized when tail holds "." or "..", so
\* that ".." of tail may take elements of canonical(head) away.
C17_NormalOfHeadAndTail ==
    \A i \in WeaklyCalls :
        LET e == log[i]
            f == e.fsBefore
        IN  (HeadLen(f, e.p) > 0 /\ TailMissing(f, e.p)) =>
              /\ Succeeded(e)
              /\ e.val = IF TailOf(f, e.p) = <<>> THEN HeadOf(f, e.p)
                         ELSE IF tail_has_dots(TailOf(f, e.p))
                         THEN lexically_normal(PathAppend(HeadOf(f, e.p), TailOf(f, e.p)))
                         ELSE PathAppend(HeadOf(f, e.p), TailOf(f, e.p))

\* a weakly_canonical call has finished whose tail climbed, with "..", into
\* the canonical head reached through a symlink
C17_Witness ==
    \E i \in WeaklyCalls :
        /\ log[i].p = LocTX \o <<"q", DotDot, DotDot, "w">>
        /\ HeadOf(log[i].fsBefore, log[i].p) = LocTY
        /\ log[i].val = LocTW

\* C18: when no leading prefix of p exists, weakly_canonical(p) returns
\* p.lexically_normal() and reports no error, with or without a slot.
C18_LexicalFallback ==
    \A i \in WeaklyCalls :
        LET e == log[i]
        IN  (HeadLen(e.fsBefore, e.p) = 0 /\ TailMissing(e.fsBefore, e.p)) =>
              /\ Succeeded(e)
              /\ e.val = lexically_normal(e.p)

\* weakly_canonical("q/../w"), nothing of it existing, has answered "w"
C18_Witness ==
    \E i \in WeaklyCalls :
        /\ log[i].p = <<"q", DotDot, "w">>
        /\ HeadLen(log[i].fsBefore, log[i].p) = 0
        /\ log[i].val = <<"w">>

\* the longest prefix of p that status does not report missing: it exists,
\* or asking for it is an error; 0 if there is none
ProbeStop(f, p) ==
    LET found == {k \in 1..Len(p) :
                    ~not_found_error(Lookup(f, SubSeq(p, 1, k), TRUE).err)}
    IN  IF found = {} THEN 0
        ELSE CHOOSE k \in found : \A j \in found : j <= k

\* the OS error that stops the probing of weakly_canonical(p), if any
ProbeError(f, p) ==
    IF ProbeStop(f, p) = 0 THEN no_error
    ELSE Lookup(f, SubSeq(p, 1, ProbeStop(f, p)), TRUE).err

\* the error code a finished call reported
CodeOf(e) == IF e.raised THEN e.exc.code ELSE e.ec

\* C19: when a primitive query of a core operation fails with an OS error
\* other than not-found, the operation reports that same error code.
C19_CodeUnchanged ==
    \A i \in WeaklyCalls :
        LET e == log[i]
        IN  ProbeError(e.fsBefore, e.p) # no_error =>
              Failed(e) /\ CodeOf(e) = ProbeError(e.fsBefore, e.p)

\* C20: a failure raised by relative names base when the weak
\* canonicalization of base failed and path when that of path failed; one
\* raised by weakly_canonical names the prefix whose processing failed.
C20_ImplicatedPath ==
    \A i \in 1..Len(log) :
        LET e == log[i]
            f == e.fsBefore
        IN  /\ (e.op = "relative" /\ e.raised) =>
                 IF ProbeError(f, e.base) # no_error THEN e.exc.path1 = e.base
                 ELSE ProbeError(f, e.p) # no_error => e.exc.path1 = e.p
            /\ (e.op = "weakly_canonical" /\ e.raised /\ ProbeError(f, e.p) # no_error) =>
                 e.exc.path1 = SubSeq(e.p, 1, ProbeStop(f, e.p))

----------------------------------------------------------------------------
(* Claims about the scan passes of canonical *)

AtReadSymlink == stack # <<>> /\ Top.fn = "canonical" /\ Top.pc = "readlink"

\* the scan was restarted by this step
Restarted == AtReadSymlink /\ Len(stack') = Len(stack)
                 /\ stack'[Len(stack')].pc = "scan"

\* the target stored in the symlink that result names
TargetOf(f, p) == f[Lookup(f, p, FALSE).loc].target

\* the elements of the source the scan had not reached
Unscanned(fr) == SubSeq(fr.source, fr.itr + 1, Len(fr.source))

\* C21: when the scan of canonical meets a symlink it restarts on a new
\* source: the target followed by the unscanned elements when the target is
\* absolute, and otherwise the result without the link's element, then the
\* target, then the unscanned elements; every unscanned element is kept,
\* once and in order.
C21_Restart ==
    [][Restarted =>
        stack'[Len(stack')].source =
            IF is_absolute(TargetOf(fs, Top.result))
            THEN TargetOf(fs, Top.result) \o Unscanned(Top)
            ELSE Front(Top.result) \o TargetOf(fs, Top.result) \o Unscanned(Top)]_vars

\* a pass restarted on a relative target placed between the elements before
\* the link and an unscanned element
C21_Witness ==
    /\ InScan /\ Top.reads = 1 /\ Top.itr = 1
    /\ \E k \in 2..(Len(SourceOfCall(Top)) - 1) :
         LET src == SourceOfCall(Top)
             link == SubSeq(src, 1, k)
         IN  /\ IsSymlink(fs, link)
             /\ ~is_absolute(TargetOf(fs, link))
             /\ Top.source = Front(link) \o TargetOf(fs, link)
                                \o SubSeq(src, k + 1, Len(src))

\* the number of symlinks the kernel follows while it resolves comps from cur
RECURSIVE HopsFrom(_, _, _, _)
HopsFrom(f, cur, comps, left) ==
    IF comps = <<>> \/ left = 0 \/ f[cur].kind # "dir" THEN 0
    ELSE LET c == Head(comps)
             rest == Tail(comps)
             child == cur \o <<c>>
         IN  IF c = Dot THEN HopsFrom(f, cur, rest, left)
             ELSE IF c = DotDot THEN HopsFrom(f, ParentLoc(cur), rest, left)
             ELSE IF ~Exists(f, child) THEN 0
             ELSE IF f[child].kind = "link"
                  THEN 1 + HopsFrom(f,
                               IF is_absolute(f[child].target)
                               THEN StartLoc(f[child].target) ELSE cur,
                               relative_path(f[child].target) \o rest, left - 1)
             ELSE HopsFrom(f, child, rest, left)

SymlinkHops(f, p) == HopsFrom(f, StartLoc(p), relative_path(p), MaxSymlinkHops)

\* the up-front status(source) of a finished call found an entry
UpFrontFound(e) ==
    /\ status(e.fsBefore, SourceOf(e), TRUE).ec = no_error
    /\ status(e.fsBefore, SourceOf(e), TRUE).type # "file_not_found"

\* counters of passes stop at MaxPasses
Counted(n) == IF n < MaxPasses THEN n ELSE MaxPasses

\* a canonical call is scanning or reading a symlink
InPasses == stack # <<>> /\ Top.fn = "canonical" /\ Top.pc \in {"scan", "readlink"}

\* what is left to do: symlinks to resolve, then elements to scan
HopsLeft(fr) == SymlinkHops(fs, fr.source)
ElemsLeft(fr) == Len(fr.source) + 1 - fr.itr

\* fr2 is nearer the end of the call than fr1
Nearer(fr2, fr1) ==
    \/ HopsLeft(fr2) < HopsLeft(fr1)
    \/ /\ HopsLeft(fr2) = HopsLeft(fr1)
       /\ \/ ElemsLeft(fr2) < ElemsLeft(fr1)
          \/ ElemsLeft(fr2) = ElemsLeft(fr1) /\ fr1.pc = "scan" /\ fr2.pc = "readlink"

\* the scan is at an element it appends to an absolute result and examines
AtExamined ==
    /\ InScan /\ Top.itr <= Len(Top.source)
    /\ Top.source[Top.itr] \notin {Dot, DotDot}
    /\ is_absolute(PathAppend(Top.result, <<Top.source[Top.itr]>>))

Cyclic(f, p) ==
    \E q \in Prefixes(p) :
        /\ IsSymlink(f, q)
        /\ symlink_status(f, ChainEnd(f, q, MaxSymlinkHops), TRUE).type = "symlink_file"

CyclicCalls == {i \in CanonicalCalls : Cyclic(log[i].fsBefore, SourceOf(log[i]))}

AtStart == stack # <<>> /\ Top.fn = "canonical" /\ Top.pc = "start"

\* C23 as stated: a canonical call whose source leads through a cyclic
\* symlink chain does not terminate: it never returns a result or an error.
C23_CycleNeverReturns == CyclicCalls = {}

\* C23: a canonical call whose source leads through a cyclic symlink chain
\* ends at its up-front status, which fails with ELOOP: the call makes no scan
\* pass and reads no symlink, and reports ELOOP, in the error slot together
\* with an empty path, or without a slot by raising an error that names the
\* source.
C23_CycleFailsUpFront ==
    /\ [](\A i \in CyclicCalls :
            /\ Failed(log[i]) /\ CodeOf(log[i]) = ELOOP
            /\ log[i].passes = 0 /\ log[i].reads = 0
            /\ log[i].hasEc => (~log[i].raised /\ log[i].val = <<>>)
            /\ ~log[i].hasEc => (log[i].raised /\ log[i].exc.path1 = SourceOf(log[i])))
    /\ [][AtStart /\ Cyclic(fs, SourceOfCall(Top)) => stack' = <<>>]_vars

\* a call on a symlink of a two-link cycle has failed with ELOOP in the slot
C23_Witness ==
    \E i \in CyclicCalls :
        /\ log[i].fsBefore[LocA] = LinkEntry(<<"c", "a">>)
        /\ log[i].fsBefore[LocCA] = LinkEntry(<<DotDot, "a">>)
        /\ SourceOf(log[i]) = LocA
        /\ log[i].hasEc /\ log[i].ec = ELOOP /\ log[i].val = <<>>

----------------------------------------------------------------------------
(* Claims about the order and the count of remove_all *)

\* remove_all_aux has handed an error up in the slot
ErrorPending ==
    /\ stack # <<>> /\ Top.fn \in {"remove_all", "remove_all_aux"}
    /\ Top.hasEc /\ ret.ec # no_error

\* C24: when remove_all is given an error slot and the listing of a
\* directory, the type query of an entry or a deletion fails, it stops at
\* once: from the failure on it makes no system call and deletes nothing, each
\* enclosing remove_all_aux returns with the error still in the slot, and
\* the call returns the number of entries it had removed up to that point.
C24_StopsAtOnce ==
    /\ [][ErrorPending /\ stack' # stack =>
            /\ fs' = fs /\ tick' = tick
            /\ Len(stack') = Len(stack) - 1
            /\ IF stack' = <<>> THEN log'[Len(log')].ec = ret.ec
               ELSE ret'.ec = ret.ec]_vars
    /\ [](\A i \in RemoveAllCalls \cap SlotFailures :
            log[i].val = log[i].own)

\* C26: every remove_all that returns normally, whether or not another
\* process deleted entries meanwhile, returns the number of entries this call
\* removed itself; an entry that was already gone adds nothing.
C26_CountIsOwn ==
    \A i \in RemoveAllCalls :
        Succeeded(log[i]) => log[i].val = log[i].own

InAux(pc) == stack # <<>> /\ Top.fn = "remove_all_aux" /\ Top.pc = pc

\* the thread has taken a step and the frame on top is still the same call
SameFrame == stack' # stack /\ Len(stack') = Len(stack)

\* the names ::readdir would hand out for the directory p
NamesIn(f, p) == {Last(c) : c \in Children(f, Lookup(f, p, TRUE).loc)}

\* C25: remove_all deletes bottom-up. A directory is listed first; its own
\* delete is issued only after every listed entry has been handed to
\* remove_all_aux and that call is back, so never while the listing has an
\* entry left or a call for one of its entries is in progress; an entry that
\* is no directory is deleted without any listing, and nothing is deleted
\* anywhere else.
C25_BottomUp ==
    /\ [](\A k \in 1..Len(stack) :
            (stack[k].fn = "remove_all_aux" /\ stack[k].pc = "delete") =>
                k = Len(stack) /\ stack[k].listing = {})
    /\ [][(InAux("enter") /\ SameFrame) =>
            IF Top.type = "directory_file"
            THEN /\ tick' = tick + 1 /\ fs' = fs
                 /\ stack'[Len(stack')].pc = "loop"
                 /\ stack'[Len(stack')].listing = NamesIn(fs, Top.p)
            ELSE /\ tick' = tick /\ fs' = fs
                 /\ stack'[Len(stack')].pc = "delete"]_vars
    /\ [][(InAux("loop") /\ SameFrame) =>
            Top.listing = {} /\ stack'[Len(stack')].pc = "delete"]_vars
    /\ [][(InAux("loop") /\ Len(stack') > Len(stack)) =>
            /\ stack'[Len(stack')].p = PathAppend(Top.p, <<next_entry(Top.listing)>>)
            /\ stack'[Len(stack)].pc = "back"
            /\ stack'[Len(stack)].listing = Top.listing \ {next_entry(Top.listing)}]_vars
    /\ [][(stack # <<>> /\ stack' # stack /\ fs' # fs
              /\ stack[1].fn = "remove_all") => InAux("delete")]_vars

\* the directory /t/y is about to be deleted after its entry z was listed and
\* removed by this call
C25_Witness ==
    /\ InAux("delete") /\ Top.type = "directory_file" /\ Top.count = 1
    /\ Top.p = LocTY /\ Exists(fs0, LocTYZ) /\ ~Exists(fs, LocTYZ)
    /\ stack[1].own = 1 /\ hist = <<>>

----------------------------------------------------------------------------
(* absolute(p, base) on its own: every shape of p against every shape of base *)

AbsoluteFrame(p, base) ==
    [fn |-> "absolute", pc |-> "start", hasEc |-> FALSE, ec |-> no_error,
     p |-> p, base |-> base]

\* a root name is followed by a root directory or by nothing
Rooted(S, n) ==
    {r \o q : r \in {<<>>, MainRoot, NetRoot}, q \in SeqsUpTo(S, n)} \cup {<<NetName>>}

AbsolutePaths == Rooted({"a", DotDot}, MaxPathLen)

AbsoluteBases == Rooted({"t"}, 1)

InitAbsolute ==
    /\ fs = [l \in Universe |-> DirEntry]
    /\ fs0 = fs
    /\ \E p \in AbsolutePaths, base \in AbsoluteBases :
         stack = <<AbsoluteFrame(p, base)>>
    /\ ret = NoRet
    /\ log = <<>>
    /\ tick = 0
    /\ hist = <<>>
    /\ done = 0
    /\ phase = "first"
    /\ order = "ascending"

\* the call returns what absolute computes
AbsoluteReturn ==
    /\ stack # <<>> /\ Top.fn = "absolute"
    /\ Apply(Return(absolute(Top.p, Top.base), no_error), 0, fs)

\* absolute once more, on the result and with the same base
AbsoluteAgain ==
    /\ stack = <<>> /\ Len(log) = 1 /\ Len(log) < MaxCalls
    /\ stack' = <<AbsoluteFrame(log[1].val, log[1].base)>>
    /\ UNCHANGED <<fs, fs0, ret, log, tick, hist, done, phase, order>>

NextAbsolute ==
    \/ AbsoluteReturn
    \/ AbsoluteAgain

SpecAbsolute == InitAbsolute /\ [][NextAbsolute]_vars

AbsoluteCalls == {i \in 1..Len(log) : log[i].op = "absolute"}

\* the base absolute works with: base, or base made absolute against the
\* current directory
AbsBaseOf(e) ==
    IF is_absolute(e.base) THEN e.base
    ELSE IF e.base = <<>> THEN current_path
    ELSE IF has_root_name(e.base) THEN e.base \o current_path
    ELSE current_path \o e.base

\* the five cases of the composition, element by element
Composed(p, ab) ==
    IF p = <<>> THEN ab
    ELSE IF has_root_name(p) /\ has_root_directory(p) THEN p
    ELSE IF has_root_name(p)
    THEN root_name(p) \o root_directory(ab) \o relative_path(ab) \o relative_path(p)
    ELSE IF has_root_directory(p)
    THEN (IF has_root_name(ab) THEN root_name(ab) \o p ELSE p)
    ELSE ab \o p

\* C27: absolute(p, base), base made absolute against the current directory
\* when it is relative, always returns an absolute path: base when p is
\* empty; p when p has a root name and a root directory; p's root name, base's
\* root directory, base's relative part and p's relative part when p has a
\* root name only; p, behind base's root name if base has one, when p has a
\* root directory only; base followed by p otherwise. Applying absolute to the
\* result with the same base returns the result.
C27_AbsoluteComposition ==
    /\ \A i \in AbsoluteCalls :
         /\ is_absolute(log[i].val)
         /\ log[i].val = Composed(log[i].p, AbsBaseOf(log[i]))
    /\ Len(log) = 2 => log[2].val = log[1].val

\* absolute of a relative path was applied twice with a base that has a root
\* name, and gave the same path under that base both times
C27_Witness ==
    /\ Len(log) = 2
    /\ log[1].p = <<"a", DotDot>> /\ log[1].base = <<NetName, Sep, "t">>
    /\ log[1].val = <<NetName, Sep, "t", "a", DotDot>>
    /\ log[2].p = log[1].val /\ log[2].val = log[1].val

----------------------------------------------------------------------------
(* Claims about the form of what weakly_canonical returns *)

\* C28: whenever weakly_canonical(p) succeeds its result is an absolute path,
\* for absolute and relative p alike and whether or not a prefix of p exists.
C28_ResultAbsolute ==
    \A i \in WeaklyCalls :
        Succeeded(log[i]) => is_absolute(log[i].val)

\* the tree of the weak filesystems, with w possibly a symlink to the
\* directory y
TwiceFileSystems ==
    {[l \in RaceUniverse |->
        CASE l = LocTX -> x
          [] l = LocTW -> w
          [] l = LocTY -> y
          [] l = LocTYZ -> (IF y = DirEntry THEN z ELSE NoEntry)
          [] OTHER -> DirEntry] :
        x \in {NoEntry, LinkEntry(<<"y">>)},
        w \in Plain \cup {LinkEntry(<<"y">>)},
        y \in {NoEntry, DirEntry},
        z \in Plain}

\* the weak paths, and one that names w by way of a missing q and ".."
TwicePaths == WeakPaths \cup {LocT \o <<"q", DotDot, "w">>}

InitTwice ==
    /\ fs \in TwiceFileSystems
    /\ fs0 = fs
    /\ stack = <<>>
    /\ ret = NoRet
    /\ log = <<>>
    /\ tick = 0
    /\ hist = <<>>
    /\ done = 0
    /\ phase = "first"
    /\ order = "ascending"

\* weakly_canonical(p), with or without a slot
CallWeakly ==
    /\ stack = <<>> /\ log = <<>>
    /\ \E hasEc \in BOOLEAN, p \in TwicePaths : stack' = <<WeaklyFrame(p, hasEc)>>
    /\ tick' = 0
    /\ UNCHANGED <<fs, fs0, ret, log, hist, done, phase, order>>

\* weakly_canonical of the path the first call returned
CallWeaklyAgain ==
    /\ stack = <<>> /\ Len(log) = 1 /\ Len(log) < MaxCalls
    /\ Succeeded(log[1])
    /\ stack' = <<WeaklyFrame(log[1].val, log[1].hasEc)>>
    /\ phase' = "next"
    /\ tick' = 0
    /\ UNCHANGED <<fs, fs0, ret, log, hist, done, order>>

NextTwice ==
    \/ CallWeakly
    \/ CallWeaklyAgain
    \/ CanonicalStart
    \/ CanonicalScan
    \/ CanonicalReadSymlink
    \/ WeaklyProbe
    \/ WeaklyJoin

SpecTwice == InitTwice /\ [][NextTwice]_vars

\* C29: weakly_canonical is idempotent on an unchanging filesystem: applied
\* to a path it returned, it succeeds and returns that same path.
C29_WeaklyIdempotent ==
    \A i, j \in WeaklyCalls :
        (i < j /\ Succeeded(log[i]) /\ log[j].p = log[i].val) =>
            (Succeeded(log[j]) /\ log[j].val = log[i].val)

----------------------------------------------------------------------------
(* remove_all while another process swaps a directory for a symlink *)

\* the tree /t with the directory y, which may hold the file z, beside the
\* entry x, which may be an empty directory, and the file w
SwapFileSystems ==
    {[l \in RaceUniverse |->
        CASE l = LocTX -> x
          [] l = LocTW -> w
          [] l = LocTYZ -> z
          [] OTHER -> DirEntry] :
        x \in Plain \cup {DirEntry},
        w \in Plain,
        z \in Plain}

SwapPaths == {LocT, LocTX, LocTY}

InitSwap ==
    /\ fs \in SwapFileSystems
    /\ fs0 = fs
    /\ stack = <<>>
    /\ ret = NoRet
    /\ log = <<>>
    /\ tick = 0
    /\ hist = <<>>
    /\ done = 0
    /\ phase = "first"
    /\ order \in {"ascending", "descending"}

\* remove_all(p), with or without a slot
CallRemoveAll ==
    /\ stack = <<>> /\ log = <<>>
    /\ \E hasEc \in BOOLEAN, p \in SwapPaths : stack' = <<RemoveAllFrame(p, hasEc)>>
    /\ tick' = 0
    /\ UNCHANGED <<fs, fs0, ret, log, hist, done, phase, order>>

\* between two system calls of remove_all the other process replaces the
\* empty directory /t/x by a symlink to the directory beside it
ExtSwap ==
    /\ stack # <<>> /\ tick >= 1 /\ Len(hist) < MaxExt
    /\ fs[LocTX].kind = "dir" /\ Children(fs, LocTX) = {}
    /\ fs' = [fs EXCEPT ![LocTX] = LinkEntry(<<"y">>)]
    /\ hist' = Append(hist, [at |-> tick, ch |-> [kind |-> "swap", loc |-> LocTX],
                             listed |-> Listed(LocTX)])
    /\ UNCHANGED <<fs0, stack, ret, log, tick, done, phase, order>>

NextSwap ==
    \/ CallRemoveAll
    \/ ExtSwap
    \/ RemoveAllQuery
    \/ RemoveAllReturn
    \/ AuxEnter
    \/ AuxLoop
    \/ AuxBack
    \/ AuxDelete

SpecSwap == InitSwap /\ [][NextSwap]_vars

\* C30: whatever another process does to the tree while remove_all(p) runs,
\* replacing a directory by a symlink to a directory elsewhere included,
\* every entry that is gone when the call ends was in the subtree of p when
\* it began: remove_all deletes nothing it reaches only through a symlink.
C30_StaysInside ==
    \A i \in RemoveAllCalls :
        RootOf(log[i]).err = no_error =>
            Gone(log[i]) \subseteq Subtree(log[i].fsBefore, RootOf(log[i]).loc)

=============================================================================
